---- MODULE Spec2Model ----
(***************************************************************************)
(* The transcript parser of src/backend/main.py (parse_chat and the        *)
(* helpers it calls), as a state machine over one call; the calls of       *)
(* several callers taking turns; the upload handler that calls the parser  *)
(* (parse_chat_file); and the event generator of the chat endpoint.        *)
(*                                                                         *)
(* A Python str is a sequence of characters; a character is a one-letter   *)
(* TLA+ string, except for the characters that cannot be written so,       *)
(* which are named: "LF" (U+000A), "CR" (U+000D), "TAB" (U+0009),         *)
(* "NNBSP" (U+202F), "BOM" (U+FEFF), "DQUOTE" (U+0022), "BACKSLASH"       *)
(* (U+005C) and "BACKTICK" (U+0060).                                       *)
(***************************************************************************)
EXTENDS Integers, Sequences, FiniteSets, TLC

VARIABLES
    content,       \* parse_chat's parameter, reassigned at line 281
    lines,         \* content.split("\n"), line 282
    dominant,      \* "A" or "B" once _detect_dominant_format has run; "?" before
    messages,      \* the output list, line 288
    participants,  \* the set of senders, line 289
    current,       \* the open message: <<>> is None, <<m>> is the dict m
    i,             \* position of the for loop of line 292 in lines
    pc,            \* "call", "detect", "loop", "done" or "raised"
    result,        \* <<>> until parse_chat returns, then <<ParsedChat>>
    given,         \* the parts a composed Format B line was made of, and its place
    call,          \* the call the variables above are the frame of: its number, its input
    parked,        \* the frames of the calls that are not running now
    request,       \* the upload parse_chat_file was called with
    response,      \* <<>> until parse_chat_file has answered, then <<its answer>>
    upstream,      \* what the completion service will do, step by step
    gen,           \* position of chat.generate: "create", "iterate", "closed"
    sent           \* the events chat.generate has yielded

\* What parse_chat does not touch: it has no access to the frames of other
\* calls, to its caller's request and response, or to the chat endpoint
outside == <<call, parked, request, response, upstream, gen, sent>>

vars == <<content, lines, dominant, messages, participants, current, i, pc,
          result, given, outside>>

----------------------------------------------------------------------------
(* Characters                                                              *)

LF    == "LF"
CR    == "CR"
TAB   == "TAB"
NNBSP == "NNBSP"
BOM   == "BOM"

Digit == {"0", "1", "2", "3", "4", "5", "6", "7", "8", "9"}

\* str.isspace(), which is also what \s matches in a str pattern
Whitespace == {" ", TAB, LF, CR, NNBSP}

\* The printable ASCII characters in code-point order, from U+0020.
Ascii ==
    <<" ", "!", "DQUOTE", "#", "$", "%", "&", "'", "(", ")", "*", "+", ",", "-",
      ".", "/", "0", "1", "2", "3", "4", "5", "6", "7", "8", "9", ":", ";",
      "<", "=", ">", "?", "@", "A", "B", "C", "D", "E", "F", "G", "H", "I",
      "J", "K", "L", "M", "N", "O", "P", "Q", "R", "S", "T", "U", "V", "W",
      "X", "Y", "Z", "[", "BACKSLASH", "]", "^", "_", "BACKTICK", "a", "b", "c", "d", "e",
      "f", "g", "h", "i", "j", "k", "l", "m", "n", "o", "p", "q", "r", "s",
      "t", "u", "v", "w", "x", "y", "z", "{", "|", "}", "~">>

\* ord(c)
CodePoint(c) ==
    CASE c = TAB   -> 9
      [] c = LF    -> 10
      [] c = CR    -> 13
      [] c = NNBSP -> 8239
      [] c = BOM   -> 65279
      [] OTHER     -> 31 + (CHOOSE k \in 1..Len(Ascii) : Ascii[k] = c)

\* int(c) for a decimal digit
DigitValue(c) == CodePoint(c) - 48

----------------------------------------------------------------------------
(* str methods.  Where a value is needed more than once it is bound by a    *)
(* quantifier over the set that holds it alone, {e : x \in {v}} for "e      *)
(* where x is v", so that it is computed once.                             *)

\* s[p], or a value that is no character when p is outside s
At(s, p) == IF p \in 1..Len(s) THEN s[p] ELSE "EOS"

\* The first position at or after p that holds no whitespace, Len(s)+1 if
\* there is none: where a greedy \s* that starts at p ends
SkipWs(s, p) ==
    CHOOSE q \in p..(Len(s) + 1) :
        /\ q = Len(s) + 1 \/ s[q] \notin Whitespace
        /\ \A r \in p..(q - 1) : s[r] \in Whitespace

\* The last position that holds no whitespace, 0 if there is none
LastNonWs(s) ==
    CHOOSE q \in 0..Len(s) :
        /\ q = 0 \/ s[q] \notin Whitespace
        /\ \A r \in (q + 1)..Len(s) : s[r] \in Whitespace

\* s.strip()
Strip(s) == SubSeq(s, SkipWs(s, 1), LastNonWs(s))

\* The first position at or after p that holds one of the characters of cs,
\* 0 if there is none
Find(s, p, cs) ==
    CHOOSE q \in {0} \cup p..Len(s) :
        IF q = 0 THEN \A r \in p..Len(s) : s[r] \notin cs
        ELSE s[q] \in cs /\ \A r \in p..(q - 1) : s[r] \notin cs

\* s.lstrip(BOM)
RECURSIVE LStripBOM(_)
LStripBOM(s) == IF s # <<>> /\ Head(s) = BOM THEN LStripBOM(Tail(s)) ELSE s

\* The first position of s that holds CR followed by LF, 0 if there is none
FindCRLF(s) ==
    CHOOSE q \in {0} \cup 1..(Len(s) - 1) :
        IF q = 0 THEN \A r \in 1..(Len(s) - 1) : ~(s[r] = CR /\ s[r + 1] = LF)
        ELSE /\ s[q] = CR /\ s[q + 1] = LF
             /\ \A r \in 1..(q - 1) : ~(s[r] = CR /\ s[r + 1] = LF)

\* s.replace("\r\n", "\n"): the occurrences are replaced from left to right
RECURSIVE ReplaceCRLF(_)
ReplaceCRLF(s) ==
    CHOOSE out \in
        {IF c = 0 THEN s
         ELSE SubSeq(s, 1, c - 1) \o <<LF>>
              \o (CHOOSE t \in {ReplaceCRLF(rest) :
                                rest \in {SubSeq(s, c + 2, Len(s))}} : TRUE) :
         c \in {FindCRLF(s)}} : TRUE

\* s.replace("\r", "\n")
ReplaceCR(s) == [k \in 1..Len(s) |-> IF s[k] = CR THEN LF ELSE s[k]]

\* s.split("\n"): always at least one line, empty lines kept
RECURSIVE SplitLF(_)
SplitLF(s) ==
    CHOOSE out \in
        {IF c = 0 THEN <<s>>
         ELSE <<SubSeq(s, 1, c - 1)>>
              \o (CHOOSE t \in {SplitLF(rest) :
                                rest \in {SubSeq(s, c + 1, Len(s))}} : TRUE) :
         c \in {Find(s, 1, {LF})}} : TRUE

\* sep.join(parts)
RECURSIVE Join(_, _)
Join(parts, sep) ==
    IF parts = <<>> THEN <<>>
    ELSE IF Len(parts) = 1 THEN parts[1]
    ELSE parts[1] \o sep \o Join(Tail(parts), sep)

\* a < b for two str, by code points
StrLess(a, b) ==
    \E k \in 1..Len(b) :
        /\ k - 1 =< Len(a)
        /\ \A j \in 1..(k - 1) : a[j] = b[j]
        /\ k > Len(a) \/ CodePoint(a[k]) < CodePoint(b[k])

\* sorted(S, reverse=True): the mutant of Sorted
RECURSIVE SortedDescending(_)
SortedDescending(S) ==
    IF S = {} THEN <<>>
    ELSE CHOOSE out \in
             {<<top>> \o (CHOOSE t \in {SortedDescending(rest) :
                                        rest \in {S \ {top}}} : TRUE) :
              top \in {x \in S : \A y \in S \ {x} : StrLess(y, x)}} : TRUE

\* sorted(S) for a set of str
RECURSIVE Sorted(_)
Sorted(S) ==
    IF S = {} THEN <<>>
    ELSE CHOOSE out \in
             {<<least>> \o (CHOOSE t \in {Sorted(rest) :
                                          rest \in {S \ {least}}} : TRUE) :
              least \in {x \in S : \A y \in S \ {x} : StrLess(x, y)}} : TRUE

----------------------------------------------------------------------------
(* The patterns.  A pattern fragment is modelled by the set of positions    *)
(* at which a match of it that starts at p can end (the position after its  *)
(* last character), so that every way the regex engine can backtrack is     *)
(* covered.  A whole pattern is modelled by the set of its matches, which   *)
(* is empty when match() returns None and holds the one match otherwise.    *)

\* \d{lo,hi}
DigitRun(s, p, lo, hi) ==
    {q \in (p + lo)..(p + hi) :
        q =< Len(s) + 1 /\ \A k \in p..(q - 1) : s[k] \in Digit}

\* one character of the class cls
OneOf(s, p, cls) == IF At(s, p) \in cls THEN {p + 1} ELSE {}

\* _TIME = \d{1,2}:\d{2}(?::\d{2})?(?:\u202f?[APap][Mm])?
TimeEnds(s, p) ==
    LET \* \d{1,2}:\d{2}
        hm   == UNION {UNION {DigitRun(s, c, 2, 2) : c \in OneOf(s, h, {":"})} :
                       h \in DigitRun(s, p, 1, 2)}
        \* (?::\d{2})?
        hms  == hm \cup UNION {UNION {DigitRun(s, c, 2, 2) :
                                      c \in OneOf(s, q, {":"})} : q \in hm}
        \* \u202f?
        sp   == hms \cup UNION {OneOf(s, q, {NNBSP}) : q \in hms}
        \* [APap][Mm]
        ampm == UNION {UNION {OneOf(s, a, {"M", "m"}) :
                              a \in OneOf(s, b, {"A", "P", "a", "p"})} :
                       b \in sp}
    IN  hms \cup ampm

\* _DATE with .{2,4} for the year: the mutant of DateEnds
DateEndsAnyYear(s, p) ==
    UNION {UNION {UNION {UNION {{q \in (s2 + 2)..(s2 + 4) : q =< Len(s) + 1} :
                                s2 \in OneOf(s, m, {"/", ".", "-"})} :
                         m \in DigitRun(s, s1, 1, 2)} :
                  s1 \in OneOf(s, d, {"/", ".", "-"})} :
           d \in DigitRun(s, p, 1, 2)}

\* _DATE = \d{1,2}[/.\-]\d{1,2}[/.\-]\d{2,4}
DateEnds(s, p) ==
    UNION {UNION {UNION {UNION {DigitRun(s, s2, 2, 4) :
                                s2 \in OneOf(s, m, {"/", ".", "-"})} :
                         m \in DigitRun(s, s1, 1, 2)} :
                  s1 \in OneOf(s, d, {"/", ".", "-"})} :
           d \in DigitRun(s, p, 1, 2)}

\* \s+([^:]+):?\s*(.*), the colon optional, so that a line without a colon
\* is all sender: the mutant of SenderAndText
SenderAndTextColonOptional(s, p) ==
    IF At(s, p) \notin Whitespace THEN {}
    ELSE UNION {UNION {
             IF c = 0
             THEN {<<SubSeq(s, w, Len(s)), <<>>>> : x \in {w} \ {Len(s) + 1}}
             ELSE {<<SubSeq(s, from, c - 1),
                     SubSeq(s, SkipWs(s, c + 1), Len(s))>> :
                      from \in {x \in {IF c > w THEN w ELSE w - 1} : x > p}} :
             c \in {Find(s, w, {":"})}} :
             w \in {SkipWs(s, p)}}

\* \s+([^:]+):\s*(.*) from position p, the tail both formats share: the set
\* of <<sender, text>>.  \s+ is greedy and gives one character back when
\* [^:]+ would otherwise be empty; [^:]+ ends at the first colon; \s* is
\* greedy; (.*) is the rest of the line.
SenderAndText(s, p) ==
    IF At(s, p) \notin Whitespace THEN {}
    ELSE UNION {UNION {
             {<<SubSeq(s, from, c - 1), SubSeq(s, SkipWs(s, c + 1), Len(s))>> :
                 from \in {x \in {IF c > w THEN w ELSE w - 1} : x > p}} :
             c \in {Find(s, w, {":"})} \ {0}} :
             w \in {SkipWs(s, p)}}

\* _FMT_A.match(line): ^\[(_TIME),\s*(_DATE)\]\s+([^:]+):\s*(.*)
FMT_A(s) ==
    IF At(s, 1) # "[" THEN {}
    ELSE UNION {UNION {UNION {
             {[time   |-> SubSeq(s, 2, t - 1),
               date   |-> SubSeq(s, ds, d - 1),
               sender |-> st[1],
               text   |-> st[2]] : st \in SenderAndText(s, d + 1)} :
             d \in {q \in DateEnds(s, ds) : At(s, q) = "]"}} :
             ds \in {SkipWs(s, t + 1)}} :
             t \in {q \in TimeEnds(s, 2) : At(s, q) = ","}}

\* ^(_DATE),\s*(_TIME)\s+-\s+(?:([^:]+):)?\s*(.*), the sender optional, so
\* that a line without <sender>: is a match with an empty sender: the mutant
\* of FMT_B
FMT_B_SenderOptional(s) ==
    UNION {UNION {UNION {UNION {
        {[date   |-> SubSeq(s, 1, d - 1),
          time   |-> SubSeq(s, ts, t - 1),
          sender |-> st[1],
          text   |-> st[2]] :
            st \in IF SenderAndText(s, dash + 1) # {}
                   THEN SenderAndText(s, dash + 1)
                   ELSE {<<<<>>, SubSeq(s, SkipWs(s, dash + 1), Len(s))>>}} :
        dash \in {q \in {SkipWs(s, t)} : q > t /\ At(s, q) = "-"}} :
        t \in TimeEnds(s, ts)} :
        ts \in {SkipWs(s, d + 1)}} :
        d \in {q \in DateEnds(s, 1) : At(s, q) = ","}}

\* _FMT_B.match(line): ^(_DATE),\s*(_TIME)\s+-\s+([^:]+):\s*(.*)
FMT_B(s) ==
    UNION {UNION {UNION {UNION {
        {[date   |-> SubSeq(s, 1, d - 1),
          time   |-> SubSeq(s, ts, t - 1),
          sender |-> st[1],
          text   |-> st[2]] : st \in SenderAndText(s, dash + 1)} :
        dash \in {q \in {SkipWs(s, t)} : q > t /\ At(s, q) = "-"}} :
        t \in TimeEnds(s, ts)} :
        ts \in {SkipWs(s, d + 1)}} :
        d \in {q \in DateEnds(s, 1) : At(s, q) = ","}}

\* MEDIA_OMITTED.search(s): <[^>]*(?:omitted|attached)[^>]*>, re.IGNORECASE.
\* The token runs from a "<" to the first ">" after it, and one of the two
\* words, in letters of either case, lies between them.
Omitted  == <<{"o", "O"}, {"m", "M"}, {"i", "I"}, {"t", "T"}, {"t", "T"},
              {"e", "E"}, {"d", "D"}>>
Attached == <<{"a", "A"}, {"t", "T"}, {"t", "T"}, {"a", "A"}, {"c", "C"},
              {"h", "H"}, {"e", "E"}, {"d", "D"}>>

\* word lies in s from position p and ends before position b
WordAt(s, p, b, word) ==
    /\ p + Len(word) =< b
    /\ \A k \in 1..Len(word) : s[p + k - 1] \in word[k]

MEDIA_OMITTED(s) ==
    \E a \in 1..Len(s) :
        /\ s[a] = "<"
        /\ \E b \in {Find(s, a + 1, {">"})} \ {0} :
              \E p \in (a + 1)..(b - 1) :
                  WordAt(s, p, b, Omitted) \/ WordAt(s, p, b, Attached)

----------------------------------------------------------------------------
(* The parsing functions: the empty set is None, {r} is the tuple r.       *)

\* _parse_fmt_a
ParseFmtA(line) ==
    {[kind   |-> "match",
      time   |-> Strip(m.time),
      date   |-> Strip(m.date),
      sender |-> Strip(m.sender),
      text   |-> m.text] : m \in FMT_A(line)}

\* int(y) raises ValueError unless y is made of decimal digits
IntRaises(y) == y = <<>> \/ \E k \in 1..Len(y) : y[k] \notin Digit

\* int(y) for a two-digit y
IntOf2(y) == 10 * DigitValue(y[1]) + DigitValue(y[2])

\* _expand_year with the pivot one year early: the mutant of ExpandYear
ExpandYearPivot29(y) ==
    IF Len(y) = 2
    THEN (IF IntOf2(y) < 30 THEN <<"2", "0">> ELSE <<"1", "9">>) \o y
    ELSE y

\* _expand_year
ExpandYear(y) ==
    IF Len(y) = 2
    THEN (IF IntOf2(y) =< 30 THEN <<"2", "0">> ELSE <<"1", "9">>) \o y
    ELSE y

\* re.split(r"[/.\-]", date)
RECURSIVE SplitDate(_)
SplitDate(s) ==
    CHOOSE out \in
        {IF c = 0 THEN <<s>>
         ELSE <<SubSeq(s, 1, c - 1)>>
              \o (CHOOSE t \in {SplitDate(rest) :
                                rest \in {SubSeq(s, c + 1, Len(s))}} : TRUE) :
         c \in {Find(s, 1, {"/", ".", "-"})}} : TRUE

\* lines 266-269 without the swap of day and month: the mutant of ReorderDate
ReorderDateNoSwap(parts) ==
    parts[1] \o <<"/">> \o parts[2] \o <<"/">> \o ExpandYear(parts[3])

\* f"{mo}/{d}/{_expand_year(y)}", line 269
ReorderDate(parts) ==
    parts[2] \o <<"/">> \o parts[1] \o <<"/">> \o ExpandYear(parts[3])

\* _parse_fmt_b; [kind |-> "raise"] stands for the ValueError of int(y)
ParseFmtB(line) ==
    UNION {
      {IF Len(parts) = 3 /\ Len(parts[3]) = 2 /\ IntRaises(parts[3])
       THEN [kind |-> "raise"]
       ELSE [kind   |-> "match",
             time   |-> Strip(m.time),
             date   |-> Strip(IF Len(parts) = 3 THEN ReorderDate(parts)
                              ELSE m.date),
             sender |-> Strip(m.sender),
             text   |-> m.text] : parts \in {SplitDate(m.date)}} :
      m \in FMT_B(line)}

\* sum(1 for l in lines if pattern.match(l)), lines 275 and 276
CountA(ls) == Cardinality({k \in 1..Len(ls) : FMT_A(ls[k]) # {}})
CountB(ls) == Cardinality({k \in 1..Len(ls) : FMT_B(ls[k]) # {}})

\* _detect_dominant_format with a > b: the mutant of DetectDominantFormat
DetectDominantFormatStrict(ls) == IF CountA(ls) > CountB(ls) THEN "A" ELSE "B"

\* _detect_dominant_format
DetectDominantFormat(ls) == IF CountA(ls) >= CountB(ls) THEN "A" ELSE "B"

\* parse_primary and parse_secondary, lines 285-286
ParsePrimary(dom, line) ==
    IF dom = "A" THEN ParseFmtA(line) ELSE ParseFmtB(line)

ParseSecondary(dom, line) ==
    IF dom = "A" THEN ParseFmtB(line) ELSE ParseFmtA(line)

----------------------------------------------------------------------------
(* The inputs: documents of up to MaxLines lines drawn from LinePool,      *)
(* joined by one of the three line endings, with or without a leading BOM. *)

MaxLines == 3

\* Format A, text with leading and trailing blanks
LineA_Bo ==
    <<"[", "9", ":", "0", "9", ",", " ", "2", "/", "4", "/", "2", "6",
      "]", " ", "B", "o", ":", " ", " ", "h", "i", " ">>

\* Format A, a media placeholder
LineA_Media ==
    <<"[", "1", "0", ":", "1", "5", ":", "0", "1", NNBSP, "P", "M",
      ",", " ", "1", "2", ".", "3", "1", ".", "2", "0", "2", "5", "]",
      " ", "A", "l", ":", " ", "<", "i", "m", "a", "g", "e", " ", "o",
      "m", "i", "t", "t", "e", "d", ">">>

\* Format A, nothing but blanks before the colon
LineA_NoName ==
    <<"[", "9", ":", "0", "9", ",", " ", "2", "/", "4", "/", "2", "6",
      "]", " ", " ", ":", " ", "y", "o">>

\* Format B
LineB_Al ==
    <<"3", "/", "1", "2", "/", "2", "9", ",", " ", "1", "5", ":", "2",
      "9", " ", "-", " ", "A", "l", ":", " ", "o", "k", ":", "g", "o">>

\* Format B, a media placeholder in mid-text
LineB_Media ==
    <<"0", "3", "-", "1", "2", "-", "3", "1", ",", " ", "9", ":", "0",
      "9", "a", "m", " ", "-", " ", "C", "y", ":", " ", "s", "e", "e",
      " ", "<", "A", "t", "t", "a", "c", "h", "e", "d", ":", " ", "f",
      ">">>

\* an empty line
LineEmpty ==
    <<>>

\* a line of whitespace
LineBlank ==
    <<" ", TAB>>

\* a line of neither format
LinePlain ==
    <<"s", "e", "e", " ", "y", "o", "u", " ", "t", "h", "e", "r", "e">>

\* a line of neither format that holds a media placeholder
LinePlainMedia ==
    <<"<", "F", "i", "l", "e", " ", "a", "t", "t", "a", "c", "h", "e",
      "d", ">">>

\* a Format B system line
LineB_System ==
    <<"3", "/", "1", "2", "/", "2", "9", ",", " ", "1", "5", ":", "2",
      "9", " ", "-", " ", "A", "l", " ", "l", "e", "f", "t">>

\* a line that is Format B but for a letter in the year
LineB_BadYear ==
    <<"3", "/", "1", "2", "/", "2", "x", ",", " ", "1", "5", ":", "2",
      "9", " ", "-", " ", "A", "l", ":", " ", "o", "k">>

LinePool ==
    {LineA_Bo, LineA_Media, LineA_NoName, LineB_Al, LineB_Media, LineEmpty,
     LineBlank, LinePlain, LinePlainMedia, LineB_System, LineB_BadYear}

Documents == UNION {[1..n -> LinePool] : n \in 1..MaxLines}

LineEndings == {<<LF>>, <<CR, LF>>, <<CR>>}

\* given when the document holds no composed line
NoGiven == [at |-> 0]

\* call when parse_chat is called once, by itself
NoCall == [id |-> 0]

\* request when parse_chat is not called by parse_chat_file
NoRequest == [filename |-> <<>>, raw |-> <<>>]

\* parse_chat is called once
OneCall == call = NoCall /\ parked = {}

\* parse_chat is not called by parse_chat_file
NoUpload == request = NoRequest /\ response = <<>>

\* the chat endpoint is not called
NoChat == upstream = <<>> /\ gen = [pc |-> "none", at |-> 0] /\ sent = <<>>

Init ==
    /\ \E doc \in Documents, eol \in LineEndings, bom \in BOOLEAN :
          content = (IF bom THEN <<BOM>> ELSE <<>>) \o Join(doc, eol)
    /\ lines = <<>>
    /\ dominant = "?"
    /\ messages = <<>>
    /\ participants = {}
    /\ current = <<>>
    /\ i = 0
    /\ pc = "call"
    /\ result = <<>>
    /\ given = NoGiven
    /\ OneCall /\ NoUpload /\ NoChat

----------------------------------------------------------------------------
(* The inputs of SpecFmtB: one Format B line composed from a day, a month,  *)
(* a year, two separators and a clock text, with nothing, a plain line or a *)
(* message before it and after it.  Every two-digit year occurs.            *)

Separators == {"/", ".", "-"}

Days == {<<"3">>, <<"0", "3">>, <<"3", "1">>}

Months == {<<"1", "2">>, <<"1">>}

TwoDigitYears == {<<a, b>> : a \in Digit, b \in Digit}

OtherYears == {<<"2", "9">>, <<"2", "0", "2", "5">>, <<"1", "9", "9", "9">>,
               <<"2", "0", "2">>}

Clocks == {<<"1", "5", ":", "2", "9">>,
           <<"9", ":", "0", "9", ":", "0", "1">>,
           <<"9", ":", "0", "9", NNBSP, "P", "M">>,
           <<"9", ":", "0", "9", "a", "m">>}

Givens ==
    {[d |-> <<"3">>, sep1 |-> "/", mo |-> <<"1", "2">>, sep2 |-> "/", y |-> y,
      time |-> <<"1", "5", ":", "2", "9">>] :
        y \in TwoDigitYears}
    \cup
    {[d |-> d, sep1 |-> s1, mo |-> mo, sep2 |-> s2, y |-> y, time |-> t] :
        d \in Days, s1 \in Separators, mo \in Months, s2 \in Separators,
        y \in OtherYears, t \in Clocks}

\* <d><sep><m><sep><y>, <time> - Al: ok
FmtBLine(g) ==
    g.d \o <<g.sep1>> \o g.mo \o <<g.sep2>> \o g.y \o <<",", " ">> \o g.time
    \o <<" ", "-", " ", "A", "l", ":", " ", "o", "k">>

InitFmtB ==
    /\ \E g \in Givens,
          before \in {<<>>, <<LinePlain>>, <<LineB_Al>>},
          after \in {<<>>, <<LinePlain>>, <<LineA_Bo>>} :
          /\ content = Join(before \o <<FmtBLine(g)>> \o after, <<LF>>)
          /\ given = [at |-> Len(before) + 1, parts |-> g]
    /\ OneCall /\ NoUpload /\ NoChat
    /\ lines = <<>>
    /\ dominant = "?"
    /\ messages = <<>>
    /\ participants = {}
    /\ current = <<>>
    /\ i = 0
    /\ pc = "call"
    /\ result = <<>>

----------------------------------------------------------------------------
(* parse_chat                                                              *)

\* messages.insert(0, m): the mutant of Emit
EmitFirst(ms, m) == <<m>> \o ms

\* messages.extend([m, m]): the mutant of Emit for the count of messages
EmitTwice(ms, m) == ms \o <<m, m>>

\* messages.append(Message(**current)), lines 296 and 319
Emit(ms, m) == Append(ms, m)

\* the dict of lines 299-305 without its "is_media" entry, which then takes
\* the default of the Message class (False): the mutant of NewMessage
NewMessageNoMedia(parsed, at) ==
    [time     |-> parsed.time,
     date     |-> parsed.date,
     sender   |-> parsed.sender,
     text     |-> Strip(parsed.text),
     is_media |-> FALSE,
     origin   |-> at]

\* the dict of lines 299-305 with "text": text, the captured group as it
\* is: the mutant of NewMessage for the trimming of text
NewMessageUntrimmed(parsed, at) ==
    [time     |-> parsed.time,
     date     |-> parsed.date,
     sender   |-> parsed.sender,
     text     |-> parsed.text,
     is_media |-> MEDIA_OMITTED(parsed.text),
     origin   |-> at]

\* the dict of lines 299-305; origin is the index in lines of the line that
\* started the message, kept for the properties only
NewMessage(parsed, at) ==
    [time     |-> parsed.time,
     date     |-> parsed.date,
     sender   |-> parsed.sender,
     text     |-> Strip(parsed.text),
     is_media |-> MEDIA_OMITTED(parsed.text),
     origin   |-> at]

\* current["text"] += line: the mutant of AppendLine
AppendLineNoBreak(text, line) == text \o line

\* current["text"] = line + "\n" + current["text"]: the mutant of AppendLine
\* for the place of what is added
AppendLineInFront(text, line) == line \o <<LF>> \o text

\* current["text"] += "\n" + line, line 316
AppendLine(text, line) == text \o <<LF>> \o line

\* current["text"] += f"\n{sec_text.strip()}": the mutant of AppendSecondary
AppendSecondaryNoLabel(text, sec) ==
    text \o <<LF>> \o Strip(sec.text)

\* current["text"] += f"\n{sec_sender}: {sec_text.strip()}", line 314
AppendSecondary(text, sec) ==
    text \o <<LF>> \o sec.sender \o <<":", " ">> \o Strip(sec.text)

\* lines 281-282
Preprocess ==
    /\ pc = "call"
    /\ \E stripped \in {LStripBOM(content)} :
       \E unix \in {ReplaceCRLF(stripped)} :
          /\ content' = ReplaceCR(unix)
          /\ lines' = SplitLF(ReplaceCR(unix))
    /\ pc' = "detect"
    /\ UNCHANGED <<dominant, messages, participants, current, i, result, given,
                   outside>>

\* lines 284-290
Detect ==
    /\ pc = "detect"
    /\ dominant' = DetectDominantFormat(lines)
    /\ messages' = <<>>
    /\ participants' = {}
    /\ current' = <<>>
    /\ i' = 1
    /\ pc' = "loop"
    /\ UNCHANGED <<content, lines, result, given, outside>>

\* one turn of the loop of line 292 on a line the primary format matches,
\* lines 293-305; an exception raised by the parsing function leaves
\* parse_chat
StartMessage ==
    /\ pc = "loop"
    /\ i =< Len(lines)
    /\ \E parsed \in ParsePrimary(dominant, lines[i]) :
          IF parsed.kind = "raise"
          THEN /\ pc' = "raised"
               /\ UNCHANGED <<messages, participants, current, i>>
          ELSE /\ messages' = IF current # <<>>
                              THEN Emit(messages, current[1])
                              ELSE messages
               /\ participants' = participants \cup {parsed.sender}
               /\ current' = <<NewMessage(parsed, i)>>
               /\ i' = i + 1
               /\ pc' = pc
    /\ UNCHANGED <<content, lines, dominant, result, given, outside>>

\* one turn of the loop on a non-blank line that the primary format does not
\* match and the secondary format does, while a message is open,
\* lines 306-314
FoldSecondary ==
    /\ pc = "loop"
    /\ i =< Len(lines)
    /\ ParsePrimary(dominant, lines[i]) = {}
    /\ current # <<>>
    /\ Strip(lines[i]) # <<>>
    /\ \E sec \in ParseSecondary(dominant, lines[i]) :
          IF sec.kind = "raise"
          THEN /\ pc' = "raised"
               /\ UNCHANGED <<current, i>>
          ELSE /\ current' = <<[current[1] EXCEPT
                                  !.text = AppendSecondary(@, sec)]>>
               /\ i' = i + 1
               /\ pc' = pc
    /\ UNCHANGED <<content, lines, dominant, messages, participants, result,
                   given, outside>>

\* one turn of the loop on a non-blank line that neither format matches,
\* while a message is open, lines 306-316
AppendRaw ==
    /\ pc = "loop"
    /\ i =< Len(lines)
    /\ ParsePrimary(dominant, lines[i]) = {}
    /\ current # <<>>
    /\ Strip(lines[i]) # <<>>
    /\ ParseSecondary(dominant, lines[i]) = {}
    /\ current' = <<[current[1] EXCEPT !.text = AppendLine(@, lines[i])]>>
    /\ i' = i + 1
    /\ UNCHANGED <<content, lines, dominant, messages, participants, pc,
                   result, given, outside>>

\* a blank line ends the open message: the mutant of SkipLine
SkipLineClosing ==
    /\ pc = "loop"
    /\ i =< Len(lines)
    /\ ParsePrimary(dominant, lines[i]) = {}
    /\ current = <<>> \/ Strip(lines[i]) = <<>>
    /\ messages' = IF current # <<>> THEN Emit(messages, current[1])
                   ELSE messages
    /\ current' = <<>>
    /\ i' = i + 1
    /\ UNCHANGED <<content, lines, dominant, participants, pc, result, given,
                   outside>>

\* the sender of a dropped line of the secondary format is noted among the
\* participants: the mutant of SkipLine for the lines before the first
\* message
SkipLineNotingSender ==
    /\ pc = "loop"
    /\ i =< Len(lines)
    /\ ParsePrimary(dominant, lines[i]) = {}
    /\ current = <<>> \/ Strip(lines[i]) = <<>>
    /\ participants' = participants \cup
          {sec.sender : sec \in ParseSecondary(dominant, lines[i])}
    /\ i' = i + 1
    /\ UNCHANGED <<content, lines, dominant, messages, current, pc, result,
                   given, outside>>

\* one turn of the loop on a line that the primary format does not match,
\* while no message is open (line 306) or the line is blank (line 309)
SkipLine ==
    /\ pc = "loop"
    /\ i =< Len(lines)
    /\ ParsePrimary(dominant, lines[i]) = {}
    /\ current = <<>> \/ Strip(lines[i]) = <<>>
    /\ i' = i + 1
    /\ UNCHANGED <<content, lines, dominant, messages, participants, current,
                   pc, result, given, outside>>

\* lines 318-325
Finish ==
    /\ pc = "loop"
    /\ i > Len(lines)
    /\ \E out \in {IF current # <<>> THEN Emit(messages, current[1])
                   ELSE messages} :
          /\ messages' = out
          /\ result' = <<[messages     |-> out,
                          participants |-> Sorted(participants),
                          title        |-> "None"]>>
    /\ pc' = "done"
    /\ UNCHANGED <<content, lines, dominant, participants, current, i, given,
                   outside>>

Next ==
    \/ Preprocess
    \/ Detect
    \/ StartMessage
    \/ FoldSecondary
    \/ AppendRaw
    \/ SkipLine
    \/ Finish

Spec == Init /\ [][Next]_vars

SpecFmtB == InitFmtB /\ [][Next]_vars

----------------------------------------------------------------------------
(* Several calls of parse_chat taking turns.  All that parse_chat reads    *)
(* and writes are its parameter and its local variables (lines 280-290),   *)
(* which are of the call: the module-level names it uses (_FMT_A, _FMT_B,  *)
(* MEDIA_OMITTED, the helper functions) are never assigned to.  The        *)
(* variables content .. result are the frame of the call that is running;  *)
(* the frames of the other calls wait in parked.                           *)

MaxCalls == 2

\* The texts the calls are given
CallDocs ==
    {Join(<<LineA_Bo, LinePlain>>, <<LF>>),
     Join(<<LineB_Al, LineA_Bo>>, <<LF>>),
     Join(<<LineB_Al, LineB_Media, LineA_Bo>>, <<CR, LF>>),
     <<BOM>> \o LineA_Media,
     LinePlain,
     Join(<<LineA_Bo, LineB_Al, LineA_Media>>, <<CR>>)}

\* The frame of a call that has not taken a step
Fresh(id, input) ==
    [id           |-> id,
     input        |-> input,
     content      |-> input,
     lines        |-> <<>>,
     dominant     |-> "?",
     messages     |-> <<>>,
     participants |-> {},
     current      |-> <<>>,
     i            |-> 0,
     pc           |-> "call",
     result       |-> <<>>]

\* The frame of the call that is running
Running ==
    [id           |-> call.id,
     input        |-> call.input,
     content      |-> content,
     lines        |-> lines,
     dominant     |-> dominant,
     messages     |-> messages,
     participants |-> participants,
     current      |-> current,
     i            |-> i,
     pc           |-> pc,
     result       |-> result]

InitCalls ==
    /\ \E n \in 2..MaxCalls :
       \E inputs \in [1..n -> CallDocs] :
          /\ call = [id |-> 1, input |-> inputs[1]]
          /\ content = inputs[1]
          /\ parked = {Fresh(k, inputs[k]) : k \in 2..n}
    /\ lines = <<>>
    /\ dominant = "?"
    /\ messages = <<>>
    /\ participants = {}
    /\ current = <<>>
    /\ i = 0
    /\ pc = "call"
    /\ result = <<>>
    /\ given = NoGiven
    /\ NoUpload /\ NoChat

\* participants kept at module level, one set for all calls: the mutant of
\* Resume
ResumeSharedParticipants(frame, leaving) ==
    [frame EXCEPT !.participants = leaving.participants]

\* What the locals of a call are when it goes on after another call
\* (leaving) has run: what they were when it stopped, lines 280-290
Resume(frame, leaving) == frame

\* the running call stops where it is and another call goes on
Switch ==
    /\ \E frame \in parked :
          /\ parked' = (parked \ {frame}) \cup {Running}
          /\ \E r \in {Resume(frame, Running)} :
                /\ call' = [id |-> r.id, input |-> r.input]
                /\ content' = r.content
                /\ lines' = r.lines
                /\ dominant' = r.dominant
                /\ messages' = r.messages
                /\ participants' = r.participants
                /\ current' = r.current
                /\ i' = r.i
                /\ pc' = r.pc
                /\ result' = r.result
    /\ UNCHANGED <<given, request, response, upstream, gen, sent>>

NextCalls ==
    \/ Preprocess
    \/ Detect
    \/ StartMessage
    \/ FoldSecondary
    \/ AppendRaw
    \/ SkipLine
    \/ Finish
    \/ Switch

SpecCalls == InitCalls /\ [][NextCalls]_vars

\* One turn of the loop of line 292, lines 293-316, as a function of the
\* loop's variables
LoopTurn(st, dom, line, at) ==
    IF ParsePrimary(dom, line) # {}
    THEN CHOOSE new \in
            {[messages     |-> IF st.current # <<>>
                               THEN Emit(st.messages, st.current[1])
                               ELSE st.messages,
              participants |-> st.participants \cup {parsed.sender},
              current      |-> <<NewMessage(parsed, at)>>] :
                parsed \in ParsePrimary(dom, line)} : TRUE
    ELSE IF st.current = <<>> \/ Strip(line) = <<>>
    THEN st
    ELSE IF ParseSecondary(dom, line) # {}
    THEN CHOOSE new \in
            {[st EXCEPT !.current =
                  <<[st.current[1] EXCEPT !.text = AppendSecondary(@, sec)]>>] :
                sec \in ParseSecondary(dom, line)} : TRUE
    ELSE [st EXCEPT !.current =
              <<[st.current[1] EXCEPT !.text = AppendLine(@, line)]>>]

\* The loop of line 292 from the line at on
RECURSIVE Loop(_, _, _, _)
Loop(st, dom, ls, at) ==
    IF at > Len(ls) THEN st
    ELSE Loop(LoopTurn(st, dom, ls[at], at), dom, ls, at + 1)

\* parse_chat(input) as a function: what one call returns when it runs from
\* its first line to its last with nothing in between
ParseChat(input) ==
    CHOOSE out \in
        {[messages     |-> IF end.current # <<>>
                           THEN Emit(end.messages, end.current[1])
                           ELSE end.messages,
          participants |-> Sorted(end.participants),
          title        |-> "None"] :
            end \in
              {Loop([messages |-> <<>>, participants |-> {}, current |-> <<>>],
                    DetectDominantFormat(ls), ls, 1) :
                 ls \in {SplitLF(ReplaceCR(ReplaceCRLF(LStripBOM(input))))}}} :
        TRUE

----------------------------------------------------------------------------
(* chat.generate, lines 442-458: the generator behind the response stream  *)
(* of the chat endpoint.  What the completion service does is drawn at the *)
(* start: whether the call of line 444 raises, and then, step by step,     *)
(* the chunk the iteration of line 451 delivers or that it raises; when    *)
(* the steps are used up the iteration ends.  A str is a TLA+ string here, *)
(* and a value that may be None is <<>> for None and <<v>> for v.          *)

MaxChunks == 3

\* A chunk with no choices
NoChoices == [choices |-> <<>>]

\* A chunk whose first choice has a delta of the content c (None or a str)
Delta(c) == [choices |-> <<[delta |-> <<[content |-> c]>>]>>]

\* A chunk whose first choice has no delta (None)
NoDelta == [choices |-> <<[delta |-> <<>>]>>]

\* The iteration raises instead of delivering a chunk
Fails == [raises |-> "connection lost"]

Steps ==
    {NoChoices, Delta(<<>>), Delta(<<"">>), Delta(<<"Hi">>),
     Delta(<<"[DONE]">>), NoDelta, Fails}

\* Whether taking the step raises: the iteration itself, or line 452 on a
\* delta that is None (AttributeError)
Raises(step) ==
    \/ "raises" \in DOMAIN step
    \/ /\ "choices" \in DOMAIN step
       /\ step.choices # <<>>
       /\ step.choices[1].delta = <<>>

\* str(e) of what the step raises
MessageOf(step) ==
    IF "raises" \in DOMAIN step THEN step.raises
    ELSE "'NoneType' object has no attribute 'content'"

\* chunk.choices[0].delta.content if chunk.choices else None, line 452
DeltaOf(chunk) ==
    IF chunk.choices # <<>> THEN chunk.choices[1].delta[1].content ELSE <<>>

\* if delta, line 453: neither None nor the empty str
Truthy(delta) == delta # <<>> /\ delta[1] # ""

\* json.dumps({key: value}) for a str value, as its tokens
JsonDumps(key, value) ==
    <<"{", "DQUOTE", key, "DQUOTE", ":", " ", "DQUOTE", value, "DQUOTE", "}">>

\* f"data: {payload}\n\n", lines 455, 456 and 458
SseEvent(payload) == <<"data: ">> \o payload \o <<LF, LF>>

\* line 455
ContentEvent(delta) == SseEvent(JsonDumps("content", delta))

\* line 456
DoneEvent == SseEvent(<<"[DONE]">>)

\* line 458
ErrorEvent(e) == SseEvent(JsonDumps("error", e))

\* the exception is swallowed: except Exception: pass, the mutant of
\* OnException
OnExceptionSilent(events, e) == events

\* except Exception as e: yield ..., lines 457-458
OnException(events, e) == Append(events, ErrorEvent(e))

\* parse_chat is not called
NoParse ==
    /\ content = <<>>
    /\ lines = <<>>
    /\ dominant = "?"
    /\ messages = <<>>
    /\ participants = {}
    /\ current = <<>>
    /\ i = 0
    /\ pc = "none"
    /\ result = <<>>
    /\ given = NoGiven
    /\ OneCall

InitChat ==
    /\ \E create \in {"ok", "raises"}, n \in 0..MaxChunks :
       \E steps \in [1..n -> Steps] :
          upstream = [create |-> create, steps |-> steps]
    /\ gen = [pc |-> "create", at |-> 0]
    /\ sent = <<>>
    /\ NoParse /\ NoUpload

\* What chat.generate does not touch: the parser and the upload handler
beside ==
    <<content, lines, dominant, messages, participants, current, i, pc,
      result, given, call, parked, request, response>>

\* line 444 returns the stream
CreateCompletion ==
    /\ gen.pc = "create"
    /\ upstream.create = "ok"
    /\ gen' = [pc |-> "iterate", at |-> 1]
    /\ UNCHANGED <<sent, upstream, beside>>

\* one turn of the loop of line 451 on a chunk, lines 452-455
NextChunk ==
    /\ gen.pc = "iterate"
    /\ gen.at =< Len(upstream.steps)
    /\ ~Raises(upstream.steps[gen.at])
    /\ \E delta \in {DeltaOf(upstream.steps[gen.at])} :
          sent' = IF Truthy(delta) THEN Append(sent, ContentEvent(delta[1]))
                  ELSE sent
    /\ gen' = [gen EXCEPT !.at = @ + 1]
    /\ UNCHANGED <<upstream, beside>>

\* the iteration ends, line 456
StreamEnds ==
    /\ gen.pc = "iterate"
    /\ gen.at > Len(upstream.steps)
    /\ sent' = Append(sent, DoneEvent)
    /\ gen' = [gen EXCEPT !.pc = "closed"]
    /\ UNCHANGED <<upstream, beside>>

\* line 444 raises, lines 457-458
CreateRaises ==
    /\ gen.pc = "create"
    /\ upstream.create = "raises"
    /\ sent' = OnException(sent, "service unavailable")
    /\ gen' = [gen EXCEPT !.pc = "closed"]
    /\ UNCHANGED <<upstream, beside>>

\* line 451 or line 452 raises, lines 457-458
StreamRaises ==
    /\ gen.pc = "iterate"
    /\ gen.at =< Len(upstream.steps)
    /\ Raises(upstream.steps[gen.at])
    /\ sent' = OnException(sent, MessageOf(upstream.steps[gen.at]))
    /\ gen' = [gen EXCEPT !.pc = "closed"]
    /\ UNCHANGED <<upstream, beside>>

NextChat ==
    \/ CreateCompletion
    \/ NextChunk
    \/ StreamEnds
    \/ CreateRaises
    \/ StreamRaises

SpecChat == InitChat /\ [][NextChat]_vars

----------------------------------------------------------------------------
(* parse_chat_file, lines 328-343: the upload handler around parse_chat.   *)
(* A byte of the upload is the character it encodes when it is below 0x80, *)
(* and is named when it is not: "xEF", "xBB", "xBF" (together the UTF-8    *)
(* encoding of U+FEFF) and "xE9".  The characters these bytes are in       *)
(* latin-1 are named "U+00EF", "U+00BB", "U+00BF" and "U+00E9".  The       *)
(* filename is <<>> for None and <<name>> for a str.                       *)

HighBytes == {"xEF", "xBB", "xBF", "xE9"}

\* The three bytes from position k on are the encoding of U+FEFF
BomBytesAt(raw, k) ==
    /\ k >= 1 /\ k + 2 =< Len(raw)
    /\ raw[k] = "xEF" /\ raw[k + 1] = "xBB" /\ raw[k + 2] = "xBF"

\* raw.decode("utf-8") raises UnicodeDecodeError: a byte from 0x80 on that
\* is not part of a complete sequence
Utf8Raises(raw) ==
    \E k \in 1..Len(raw) :
        /\ raw[k] \in HighBytes
        /\ ~BomBytesAt(raw, k)
        /\ ~(BomBytesAt(raw, k - 1) \/ BomBytesAt(raw, k - 2))

\* The first position where the encoding of U+FEFF starts, 0 if nowhere
FindBomBytes(raw) ==
    CHOOSE q \in 0..Len(raw) :
        IF q = 0 THEN \A r \in 1..Len(raw) : ~BomBytesAt(raw, r)
        ELSE BomBytesAt(raw, q) /\ \A r \in 1..(q - 1) : ~BomBytesAt(raw, r)

\* raw.decode("utf-8") of bytes it does not raise on, line 335
RECURSIVE DecodeUtf8(_)
DecodeUtf8(raw) ==
    CHOOSE out \in
        {IF c = 0 THEN raw
         ELSE SubSeq(raw, 1, c - 1) \o <<BOM>>
              \o (CHOOSE t \in {DecodeUtf8(rest) :
                                rest \in {SubSeq(raw, c + 3, Len(raw))}} : TRUE) :
            c \in {FindBomBytes(raw)}} : TRUE

\* raw.decode("latin-1"), line 337: every byte is the character of its
\* number
DecodeLatin1(raw) ==
    [k \in 1..Len(raw) |->
        CASE raw[k] = "xEF" -> "U+00EF"
          [] raw[k] = "xBB" -> "U+00BB"
          [] raw[k] = "xBF" -> "U+00BF"
          [] raw[k] = "xE9" -> "U+00E9"
          [] OTHER          -> raw[k]]

\* lines 334-337
Decode(raw) ==
    IF Utf8Raises(raw) THEN DecodeLatin1(raw) ELSE DecodeUtf8(raw)

\* s.lower(), for the characters of Ascii
Lower(s) ==
    [k \in 1..Len(s) |->
        IF CodePoint(s[k]) \in 65..90 THEN Ascii[CodePoint(s[k]) + 1]
        ELSE s[k]]

\* s.endswith(suffix)
EndsWith(s, suffix) ==
    /\ Len(s) >= Len(suffix)
    /\ SubSeq(s, Len(s) - Len(suffix) + 1, Len(s)) = suffix

\* not file.filename or not file.filename.lower().endswith(".txt"), line 330
NotTxt(filename) ==
    IF filename = <<>> THEN TRUE
    ELSE IF filename[1] = <<>> THEN TRUE
    ELSE ~EndsWith(Lower(filename[1]), <<".", "t", "x", "t">>)

\* The filenames of the uploads
Filenames ==
    {<<>>,
     <<(<<>>)>>,
     <<<<"c", "h", "a", "t", ".", "t", "x", "t">>>>,
     <<<<"C", "H", "A", "T", ".", "T", "X", "T">>>>,
     <<<<".", "t", "x", "t">>>>,
     <<<<"c", "h", "a", "t", ".", "t", "x", "t", ".", "g", "z">>>>,
     <<<<"c", "h", "a", "t", ".", "p", "d", "f">>>>,
     <<<<"t", "x", "t">>>>}

\* The bytes of the uploads: the texts of one line and of two lines in
\* ASCII, and texts with bytes from 0x80 on
Uploads ==
    {Join(doc, <<LF>>) : doc \in UNION {[1..n -> LinePool] : n \in 1..2}}
    \cup
    {<<>>,
     <<"xEF", "xBB", "xBF">> \o LineA_Bo,
     <<"xEF", "xBB", "xBF">> \o LineA_Bo \o <<"xE9">>,
     Join(<<LineB_Al, LineB_Media \o <<"xE9">>>>, <<CR, LF>>),
     Join(<<LineEmpty, LineA_Media, LineB_Al>>, <<CR>>)}

InitUpload ==
    /\ \E filename \in Filenames, raw \in Uploads :
          request = [filename |-> filename, raw |-> raw]
    /\ response = <<>>
    /\ content = <<>>
    /\ lines = <<>>
    /\ dominant = "?"
    /\ messages = <<>>
    /\ participants = {}
    /\ current = <<>>
    /\ i = 0
    /\ pc = "request"
    /\ result = <<>>
    /\ given = NoGiven
    /\ OneCall /\ NoChat

\* return result whatever it holds: the mutant of Answer
AnswerAlways200(parsed) == [status |-> 200, body |-> <<parsed>>]

\* lines 340-343: the HTTPException of status 422 when the parser returned
\* no message, the result otherwise
Answer(parsed) ==
    IF parsed.messages = <<>>
    THEN [status |-> 422, body |-> <<>>]
    ELSE [status |-> 200, body |-> <<parsed>>]

\* What the handler does not touch while parse_chat is not running
parserLocals ==
    <<lines, dominant, messages, participants, current, i, result, given,
      call, parked, upstream, gen, sent>>

\* lines 330-331: the HTTPException of status 400
RejectFilename ==
    /\ pc = "request"
    /\ NotTxt(request.filename)
    /\ response' = <<[status |-> 400, body |-> <<>>]>>
    /\ pc' = "answered"
    /\ UNCHANGED <<content, request, parserLocals>>

\* lines 333-339, up to the call of parse_chat
ReadAndDecode ==
    /\ pc = "request"
    /\ ~NotTxt(request.filename)
    /\ content' = Decode(request.raw)
    /\ pc' = "call"
    /\ UNCHANGED <<request, response, parserLocals>>

\* lines 340-343, after parse_chat has returned
Respond ==
    /\ pc = "done"
    /\ response' = <<Answer(result[1])>>
    /\ pc' = "answered"
    /\ UNCHANGED <<content, request, parserLocals>>

NextUpload ==
    \/ RejectFilename
    \/ ReadAndDecode
    \/ Preprocess
    \/ Detect
    \/ StartMessage
    \/ FoldSecondary
    \/ AppendRaw
    \/ SkipLine
    \/ Finish
    \/ Respond

SpecUpload == InitUpload /\ [][NextUpload]_vars

----------------------------------------------------------------------------
(* Properties                                                              *)

\* The lines of LinePool by what they are, as written down next to them
FormatALines == {LineA_Bo, LineA_Media, LineA_NoName}
FormatBLines == {LineB_Al, LineB_Media}
PlainLines   == {LinePlain, LinePlainMedia, LineB_System, LineB_BadYear}

\* The lines of the document that are of Format A, of Format B
LinesOfA == {k \in 1..Len(lines) : lines[k] \in FormatALines}
LinesOfB == {k \in 1..Len(lines) : lines[k] \in FormatBLines}

\* The messages parse_chat returned
Returned == result[1].messages

\* The lines that the primary format of the document matches
Starters == IF dominant = "A" THEN LinesOfA ELSE LinesOfB

\* C1: the messages parse_chat returns are in the order of the input lines
\* that started them: each message was started by a line the primary format
\* matches, from which it has its sender, and a message that comes before
\* another in the output was started by an earlier line.
C1_InputOrder ==
    pc = "done" =>
        /\ \A a \in 1..Len(Returned) :
              /\ Returned[a].origin \in Starters
              /\ \E p \in ParsePrimary(dominant, lines[Returned[a].origin]) :
                    p.sender = Returned[a].sender
        /\ \A a, b \in 1..Len(Returned) :
              a < b => Returned[a].origin < Returned[b].origin

\* C1: three messages were returned, the first two of different senders
C1_Witness ==
    /\ pc = "done"
    /\ Len(Returned) = 3
    /\ Returned[1].sender # Returned[2].sender
    /\ StrLess(Returned[2].sender, Returned[1].sender)

\* C2: the participants parse_chat returns are the senders of the returned
\* messages, each once, in ascending order; the sender of a line of the
\* secondary format that was folded into a message is among them only if it
\* is also the sender of a message.
C2_Participants ==
    pc = "done" =>
        /\ {result[1].participants[k] : k \in 1..Len(result[1].participants)}
              = {Returned[k].sender : k \in 1..Len(Returned)}
        /\ \A k \in 1..(Len(result[1].participants) - 1) :
              StrLess(result[1].participants[k], result[1].participants[k + 1])

\* C2: two participants were returned, and a line of the secondary format
\* was folded into a message whose sender is not one of them
C2_Witness ==
    /\ pc = "done"
    /\ Len(result[1].participants) = 2
    /\ \E k \in 2..Len(lines) :
          /\ k \notin Starters
          /\ \E sec \in ParseSecondary(dominant, lines[k]) :
                /\ \A j \in 1..2 : result[1].participants[j] # sec.sender
                /\ sec.sender # <<>>

\* C3: once the format has been detected it is A exactly when at least as
\* many lines are of Format A as of Format B, for the whole pass; and no
\* line is classified before the format has been detected.
C3_DominantFormat ==
    /\ pc \in {"loop", "done", "raised"} =>
          dominant = IF Cardinality(LinesOfA) >= Cardinality(LinesOfB)
                     THEN "A" ELSE "B"
    /\ pc \in {"call", "detect"} =>
          dominant = "?" /\ messages = <<>> /\ current = <<>> /\ i = 0

\* C3: a document with one line of each format, Format B first, was parsed
\* with A as the primary format
C3_Witness ==
    /\ pc = "done"
    /\ Len(lines) = 2
    /\ lines[1] \in FormatBLines
    /\ lines[2] \in FormatALines
    /\ dominant = "A"
    /\ Len(Returned) = 1

\* The decimal number a str of digits writes
RECURSIVE NumberOf(_)
NumberOf(ds) ==
    IF ds = <<>> THEN 0
    ELSE 10 * NumberOf(SubSeq(ds, 1, Len(ds) - 1)) + DigitValue(ds[Len(ds)])

\* What follows the last "/" of a date
YearOf(date) ==
    LET slashes == {q \in 1..Len(date) : date[q] = "/"}
    IN  SubSeq(date, 1 + CHOOSE q \in slashes : \A r \in slashes : r =< q,
               Len(date))

\* The messages returned that the composed line started
OfGiven == {k \in 1..Len(Returned) : Returned[k].origin = given.at}

\* C4: when Format B is primary, the message started by a line whose date
\* has the two-digit year yy has the year 2000 + yy in its date when
\* yy <= 30 and the year 1900 + yy when yy > 30, in four digits; a
\* four-digit year is in its date as it is in the line.
C4_YearPivot ==
    (pc = "done" /\ dominant = "B") =>
        \A k \in OfGiven :
            /\ Len(given.parts.y) = 2 =>
                  /\ Len(YearOf(Returned[k].date)) = 4
                  /\ NumberOf(YearOf(Returned[k].date)) =
                        IF NumberOf(given.parts.y) =< 30
                        THEN 2000 + NumberOf(given.parts.y)
                        ELSE 1900 + NumberOf(given.parts.y)
            /\ Len(given.parts.y) = 4 =>
                  YearOf(Returned[k].date) = given.parts.y

\* C4: a line with the year 30 started a message of the year 2030
C4_Witness ==
    /\ pc = "done"
    /\ dominant = "B"
    /\ given.parts.y = <<"3", "0">>
    /\ \E k \in OfGiven : YearOf(Returned[k].date) = <<"2", "0", "3", "0">>

\* The year of a date as the pivot rule writes it
PivotYear(y) ==
    IF Len(y) = 2
    THEN (IF NumberOf(y) =< 30 THEN <<"2", "0">> ELSE <<"1", "9">>) \o y
    ELSE y

\* C5: when Format B is primary, the line <d><sep><m><sep><y>, <time> -
\* <sender>: <text> starts a message, whose date is <m>/<d>/<y expanded>
\* and whose time is <time> as it stands in the line.
C5_DateReordered ==
    (pc = "done" /\ dominant = "B") =>
        /\ OfGiven # {}
        /\ \A k \in OfGiven :
              /\ Returned[k].date =
                    given.parts.mo \o <<"/">> \o given.parts.d \o <<"/">>
                    \o PivotYear(given.parts.y)
              /\ Returned[k].time = given.parts.time

\* C5: the line 03.1-2025, 9:09<NNBSP>PM - Al: ok started a message of the
\* date 1/03/2025
C5_Witness ==
    /\ pc = "done"
    /\ dominant = "B"
    /\ given.parts.sep1 = "."
    /\ given.parts.sep2 = "-"
    /\ given.parts.time = <<"9", ":", "0", "9", NNBSP, "P", "M">>
    /\ \E k \in OfGiven :
          Returned[k].date = <<"1", "/", "0", "3", "/", "2", "0", "2", "5">>

\* C6: a turn of the loop on a non-blank line of neither format, while a
\* message is open, appends a newline and the line as it is to the text of
\* the open message, changes nothing else of it, and emits no message.
C6_ContinuationAppended ==
    [][(pc = "loop" /\ i =< Len(lines) /\ current # <<>>
            /\ lines[i] \in PlainLines)
        => /\ current' = <<[current[1] EXCEPT
                              !.text = current[1].text \o <<LF>> \o lines[i]]>>
           /\ messages' = messages
           /\ i' = i + 1]_vars

\* C6: "see you there" was appended to the message "hi"
C6_Witness ==
    /\ pc = "loop"
    /\ i = 3
    /\ lines[1] = LineA_Bo
    /\ lines[2] = LinePlain
    /\ messages = <<>>
    /\ current # <<>>
    /\ current[1].text = <<"h", "i", LF>> \o LinePlain

\* The text of a message up to its first newline: what its starting line
\* gave it
FirstLineOf(text) ==
    IF Find(text, 1, {LF}) = 0 THEN text
    ELSE SubSeq(text, 1, Find(text, 1, {LF}) - 1)

\* C7, as claimed: is_media of a returned message tells whether its whole
\* text, the folded lines with it, holds a media placeholder.
C7_MediaOfWholeText ==
    pc = "done" =>
        \A k \in 1..Len(Returned) :
            Returned[k].is_media = MEDIA_OMITTED(Returned[k].text)

\* C7, amended: is_media of a message tells whether the part of its text
\* that its starting line gave it holds a media placeholder, which in the
\* documents is so for the two lines written with one; the lines folded
\* into the message afterwards do not change it.
C7_MediaOfStartingLine ==
    /\ current # <<>> =>
          current[1].is_media = MEDIA_OMITTED(FirstLineOf(current[1].text))
    /\ pc = "done" =>
          \A k \in 1..Len(Returned) :
              /\ Returned[k].is_media =
                    MEDIA_OMITTED(FirstLineOf(Returned[k].text))
              /\ Returned[k].is_media =
                    (lines[Returned[k].origin] \in {LineA_Media, LineB_Media})

\* C7: a message was returned that is not media although a line folded into
\* it holds a placeholder, and another that is media
C7_Witness ==
    /\ pc = "done"
    /\ \E k \in 1..Len(Returned) :
          ~Returned[k].is_media /\ MEDIA_OMITTED(Returned[k].text)
    /\ \E k \in 1..Len(Returned) : Returned[k].is_media

\* C8, as claimed: no returned message has an empty sender.
C8_NoEmptySender ==
    pc = "done" => \A k \in 1..Len(Returned) : Returned[k].sender # <<>>

\* C9: when no line of the document is of Format A or of Format B, the
\* empty document among them, parse_chat returns no message, no participant
\* and no title.
C9_NothingRecognized ==
    (pc = "done" /\ LinesOfA = {} /\ LinesOfB = {}) =>
        /\ result[1].messages = <<>>
        /\ result[1].participants = <<>>
        /\ result[1].title = "None"

\* C9: a document of three lines of neither format, the first and the last
\* not blank, was parsed to nothing
C9_Witness ==
    /\ pc = "done"
    /\ Len(lines) = 3
    /\ lines[1] = LineB_System
    /\ lines[3] = LinePlain
    /\ LinesOfA = {} /\ LinesOfB = {}
    /\ result[1].messages = <<>>

\* C10: parse_chat raises nothing and, until it has returned, can always go
\* on; each line is handled in exactly one of three ways, starting a
\* message, being appended to the open message or being dropped; after the
\* last line parse_chat returns a result, every line having been handled.
C10_NoErrorOutcome ==
    /\ pc # "raised"
    /\ pc # "done" => ENABLED Next
    /\ (pc = "loop" /\ i =< Len(lines)) =>
          /\ ENABLED StartMessage \/ ENABLED (FoldSecondary \/ AppendRaw)
                \/ ENABLED SkipLine
          /\ ~(ENABLED StartMessage /\ ENABLED (FoldSecondary \/ AppendRaw))
          /\ ~(ENABLED StartMessage /\ ENABLED SkipLine)
          /\ ~(ENABLED (FoldSecondary \/ AppendRaw) /\ ENABLED SkipLine)
    /\ (pc = "loop" /\ i > Len(lines)) => ENABLED Finish
    /\ pc = "done" => Len(result) = 1 /\ i = Len(lines) + 1

\* C10: a document whose lines were dropped, started a message and, being
\* malformed, appended, in this order, was parsed to the end
C10_Witness ==
    /\ pc = "done"
    /\ Len(lines) = 3
    /\ lines[1] = LineB_BadYear
    /\ lines[2] = LineB_Al
    /\ lines[3] = LineB_BadYear
    /\ Len(Returned) = 1
    /\ Returned[1].text = <<"o", "k", ":", "g", "o", LF>> \o LineB_BadYear

\* The result of every call that has returned, with the text it was given
ReturnedCalls ==
    {[input |-> f.input, result |-> f.result] :
        f \in {g \in parked \cup {Running} : g.pc = "done"}}

\* C11: when calls of parse_chat take turns, each on its own text, each call
\* returns what parse_chat returns for its text when it runs by itself,
\* whatever the other calls were given and wherever they stand; nothing of
\* one call is seen by another.
C11_NoCrossCallState ==
    \A c \in ReturnedCalls : c.result = <<ParseChat(c.input)>>

\* C11: a call has returned two messages while a call that was given
\* another text stands in the middle of its loop with a message open and
\* other participants
C11_Witness ==
    /\ pc = "done"
    /\ Len(Returned) = 2
    /\ \E f \in parked :
          /\ f.input # call.input
          /\ f.pc = "loop"
          /\ f.i = 2
          /\ f.current # <<>>
          /\ f.participants # participants

\* The lines before the line at that the primary format matches, as
\* _parse_fmt_a or _parse_fmt_b decides it
PrimaryBefore(at) ==
    {k \in 1..Len(lines) : k < at /\ ParsePrimary(dominant, lines[k]) # {}}

\* The n-th of a set of line numbers, in ascending order
NthOf(S, n) == CHOOSE k \in S : Cardinality({j \in S : j < k}) = n - 1

\* C12: the messages emitted so far and the open message are, one for one
\* and in order, the lines handled so far that the primary format matches:
\* the n-th of them was started by the n-th such line, whose time, date and
\* sender it has, so that no message comes from any other line and none is
\* emitted twice; a message is open exactly when such a line has been
\* handled; and the messages returned are the emitted ones with the open
\* message as the last, one for each such line of the document.
C12_OneMessagePerPrimaryLine ==
    /\ pc = "loop" =>
          \E all \in {messages \o current} :
             /\ Len(all) = Cardinality(PrimaryBefore(i))
             /\ (current # <<>>) = (PrimaryBefore(i) # {})
             /\ \A n \in 1..Len(all) :
                   /\ all[n].origin = NthOf(PrimaryBefore(i), n)
                   /\ \E p \in ParsePrimary(dominant, lines[all[n].origin]) :
                         /\ all[n].time = p.time
                         /\ all[n].date = p.date
                         /\ all[n].sender = p.sender
    /\ pc = "done" =>
          /\ PrimaryBefore(Len(lines) + 1) = Starters
          /\ Len(Returned) = Cardinality(Starters)
          /\ \A n \in 1..Len(Returned) :
                /\ Returned[n].origin = NthOf(Starters, n)
                /\ \E p \in ParsePrimary(dominant, lines[Returned[n].origin]) :
                      /\ Returned[n].time = p.time
                      /\ Returned[n].date = p.date
                      /\ Returned[n].sender = p.sender

\* C12: of three lines the first and the last are of the primary format,
\* Format B, and two messages were returned, the first of them with the
\* line between appended
C12_Witness ==
    /\ pc = "done"
    /\ dominant = "B"
    /\ Starters = {1, 3}
    /\ lines[2] \in PlainLines
    /\ Len(Returned) = 2
    /\ Returned[1].origin = 1
    /\ Returned[2].origin = 3
    /\ Find(Returned[1].text, 1, {LF}) # 0

\* The lines of the secondary format
SecondaryLines == IF dominant = "A" THEN FormatBLines ELSE FormatALines

\* <sender>: <text> of a line of Format A or B, as the line is written
LabelOf(line) ==
    CASE line = LineA_Bo     -> <<"B", "o", ":", " ", "h", "i">>
      [] line = LineA_Media  ->
            <<"A", "l", ":", " ", "<", "i", "m", "a", "g", "e", " ", "o", "m",
              "i", "t", "t", "e", "d", ">">>
      [] line = LineA_NoName -> <<":", " ", "y", "o">>
      [] line = LineB_Al     -> <<"A", "l", ":", " ", "o", "k", ":", "g", "o">>
      [] line = LineB_Media  ->
            <<"C", "y", ":", " ", "s", "e", "e", " ", "<", "A", "t", "t", "a",
              "c", "h", "e", "d", ":", " ", "f", ">">>

\* C13: a turn of the loop on a line of the secondary format, while a
\* message is open, appends a newline and <sender>: <text> of the line to
\* the text of the open message and changes nothing else: the message stays
\* open with its time, date, sender and is_media, no message is emitted or
\* started, the time and date of the line go nowhere, and participants is
\* as it was.
C13_SecondaryFolded ==
    [][(pc = "loop" /\ i =< Len(lines) /\ current # <<>>
            /\ lines[i] \in SecondaryLines)
        => /\ current' = <<[current[1] EXCEPT
                              !.text = current[1].text \o <<LF>>
                                       \o LabelOf(lines[i])]>>
           /\ messages' = messages
           /\ participants' = participants
           /\ i' = i + 1
           /\ pc' = "loop"]_vars

\* C13: the Format B line of Al was folded into the message of Bo, and Bo
\* is the only participant
C13_Witness ==
    /\ pc = "loop"
    /\ i = 3
    /\ dominant = "A"
    /\ lines[1] = LineA_Bo
    /\ lines[2] = LineB_Al
    /\ messages = <<>>
    /\ participants = {<<"B", "o">>}
    /\ current # <<>>
    /\ current[1].text =
          <<"h", "i", LF, "A", "l", ":", " ", "o", "k", ":", "g", "o">>
    /\ current[1].date = <<"2", "/", "4", "/", "2", "6">>

\* What follows <sender>: in a line of Format A or B, as the line is
\* written, from the first character that is no whitespace to the end of
\* the line
BodyOf(line) ==
    CASE line = LineA_Bo     -> <<"h", "i", " ">>
      [] line = LineA_Media  ->
            <<"<", "i", "m", "a", "g", "e", " ", "o", "m", "i", "t", "t", "e",
              "d", ">">>
      [] line = LineA_NoName -> <<"y", "o">>
      [] line = LineB_Al     -> <<"o", "k", ":", "g", "o">>
      [] line = LineB_Media  ->
            <<"s", "e", "e", " ", "<", "A", "t", "t", "a", "c", "h", "e", "d",
              ":", " ", "f", ">">>

\* A message has been started by the line just handled
JustStarted ==
    pc = "loop" /\ current # <<>> /\ current[1].origin = i - 1

\* C14, as claimed: the text of a message that has just been started is
\* what follows <sender>: in its line without the whitespace that leads,
\* the whitespace that trails still there.
C14_TrailingWhitespaceKept ==
    JustStarted => current[1].text = BodyOf(lines[i - 1])

\* C14, amended: what the pattern captures is what follows <sender>: from
\* the first character that is no whitespace on, and the text of a message
\* that has just been started is that without the whitespace that trails:
\* it neither starts nor ends with whitespace, and whitespace alone is what
\* the captured body has after it.
C14_BothSidesTrimmed ==
    JustStarted =>
        /\ \A p \in ParsePrimary(dominant, lines[i - 1]) :
              p.text = BodyOf(lines[i - 1])
        /\ \E text \in {current[1].text}, body \in {BodyOf(lines[i - 1])} :
              /\ Len(text) =< Len(body)
              /\ text = SubSeq(body, 1, Len(text))
              /\ \A k \in (Len(text) + 1)..Len(body) : body[k] \in Whitespace
              /\ text # <<>> =>
                    text[1] \notin Whitespace /\ text[Len(text)] \notin Whitespace

\* C14: the line "[9:09, 2/4/26] Bo:  hi " has started a message of the
\* text "hi"
C14_Witness ==
    /\ JustStarted
    /\ lines[i - 1] = LineA_Bo
    /\ current[1].text = <<"h", "i">>

\* The lines that are empty or hold whitespace alone
BlankLines == {LineEmpty, LineBlank}

\* C15: a turn of the loop on a blank line, while a message is open, leaves
\* the open message as it is and open, emits and starts no message and
\* leaves participants as they are; and a turn on a non-blank line of
\* neither format that comes right after a blank line appends the line to
\* the message that was open before the blank line.
C15_BlankLineDropped ==
    [][/\ (pc = "loop" /\ i =< Len(lines) /\ current # <<>>
              /\ lines[i] \in BlankLines)
          => /\ current' = current
             /\ messages' = messages
             /\ participants' = participants
             /\ i' = i + 1
             /\ pc' = "loop"
       /\ (pc = "loop" /\ i =< Len(lines) /\ i > 1 /\ current # <<>>
              /\ lines[i - 1] \in BlankLines /\ lines[i] \in PlainLines)
          => /\ current' = <<[current[1] EXCEPT
                                !.text = current[1].text \o <<LF>> \o lines[i]]>>
             /\ current[1].origin < i - 1
             /\ messages' = messages]_vars

\* C15: "see you there" was appended to the message "hi" across a line of
\* whitespace, which left no trace
C15_Witness ==
    /\ pc = "done"
    /\ lines = <<LineA_Bo, LineBlank, LinePlain>>
    /\ Len(Returned) = 1
    /\ Returned[1].text = <<"h", "i", LF>> \o LinePlain

\* C16: as long as no message has been started there are no messages and no
\* participants, and a turn of the loop on a line that is not of the primary
\* format, be it of the secondary format, of neither or blank, leaves all
\* of that as it is: no message is open after it, none is emitted, and
\* participants stays empty.
C16_DroppedBeforeFirstMessage ==
    [][(pc = "loop" /\ i =< Len(lines) /\ current = <<>> /\ i \notin Starters)
        => /\ messages = <<>> /\ participants = {}
           /\ current' = <<>>
           /\ messages' = <<>>
           /\ participants' = {}
           /\ i' = i + 1
           /\ pc' = "loop"]_vars

\* C16: a line of the secondary format and a line of neither format came
\* before the line of Bo, whose message is all that was returned
C16_Witness ==
    /\ pc = "done"
    /\ lines = <<LineB_Al, LinePlain, LineA_Bo>>
    /\ dominant = "A"
    /\ Len(Returned) = 1
    /\ Returned[1].text = <<"h", "i">>
    /\ result[1].participants = <<(<<"B", "o">>)>>

\* C17: the line "3/12/29, 15:29 - Al left", a date and a time of Format B
\* and a dash with no <sender>: after it, is matched by neither format; a
\* turn of the loop on it starts and emits no message and leaves
\* participants as they are: when a message is open, the line as it is
\* written is appended to its text after a newline and the message stays
\* the one it was; when none is open, none is open afterwards.
C17_SystemLine ==
    [][(pc = "loop" /\ i =< Len(lines) /\ lines[i] = LineB_System)
        => /\ ParseFmtA(lines[i]) = {} /\ ParseFmtB(lines[i]) = {}
           /\ current' = IF current = <<>> THEN <<>>
                         ELSE <<[current[1] EXCEPT
                                   !.text = current[1].text \o <<LF>>
                                            \o LineB_System]>>
           /\ messages' = messages
           /\ participants' = participants
           /\ i' = i + 1
           /\ pc' = "loop"]_vars

\* C17: with Format B primary, the system line after the line of Al has
\* become the second line of his message, the only one returned
C17_Witness ==
    /\ pc = "done"
    /\ dominant = "B"
    /\ lines = <<LineB_Al, LineB_System>>
    /\ Len(Returned) = 1
    /\ Returned[1].sender = <<"A", "l">>
    /\ Returned[1].text = <<"o", "k", ":", "g", "o", LF>> \o LineB_System

\* C20: a turn of the loop on a line the primary format does not match
\* leaves the emitted messages as they are and opens and closes no message;
\* of the open message the time, the date, the sender and is_media stay as
\* they are, and its text afterwards starts with its text before.
C20_OnlyTextGrows ==
    [][(pc = "loop" /\ i =< Len(lines)
            /\ ParsePrimary(dominant, lines[i]) = {})
        => /\ messages' = messages
           /\ (current = <<>>) = (current' = <<>>)
           /\ current # <<>> =>
                 /\ current'[1].time = current[1].time
                 /\ current'[1].date = current[1].date
                 /\ current'[1].sender = current[1].sender
                 /\ current'[1].is_media = current[1].is_media
                 /\ Len(current'[1].text) >= Len(current[1].text)
                 /\ SubSeq(current'[1].text, 1, Len(current[1].text))
                       = current[1].text]_vars

\* C20: after the message of Bo was emitted, a line with a media
\* placeholder was appended to the open message of Al, which was and is
\* media, of the same time and date
C20_Witness ==
    /\ pc = "loop"
    /\ i = 4
    /\ lines = <<LineA_Bo, LineA_Media, LinePlainMedia>>
    /\ Len(messages) = 1
    /\ messages[1].text = <<"h", "i">>
    /\ current # <<>>
    /\ current[1].is_media
    /\ current[1].sender = <<"A", "l">>
    /\ current[1].date = <<"1", "2", ".", "3", "1", ".", "2", "0", "2", "5">>
    /\ Len(current[1].text) = 15 + 1 + Len(LinePlainMedia)

\* The events by what a reader of the stream takes them for
IsDone(event) == event = <<"data: ", "[DONE]", LF, LF>>
IsError(event) == Len(event) = 13 /\ event[2] = "{" /\ event[4] = "error"
IsContent(event) == Len(event) = 13 /\ event[2] = "{" /\ event[4] = "content"

\* The steps of the completion service that raise
RaisingSteps ==
    {k \in 1..Len(upstream.steps) : Raises(upstream.steps[k])}

\* The steps taken so far that had a content to pass on, a str that is not
\* empty
PassedOn ==
    {k \in 1..Len(upstream.steps) :
        /\ k < gen.at
        /\ \A r \in RaisingSteps : k < r
        /\ upstream.steps[k] \in
              {Delta(<<"Hi">>), Delta(<<"[DONE]">>)}}

\* C18: what chat.generate has sent is content events, one for each chunk
\* taken so far that had a content and in the order of the chunks, and,
\* exactly when the generator has ended, one more event after them, the
\* last: the sentinel [DONE] when the completion service has delivered all
\* its chunks, an error event with the message of the exception when the
\* call or a step of the iteration has raised.  Every event is of one kind
\* only; until it has ended the generator can go on, and once it has ended
\* it sends nothing.
C18_StreamShape ==
    /\ \A k \in 1..Len(sent) :
          /\ k < Len(sent) => IsContent(sent[k])
          /\ Cardinality({kind \in {"done", "error", "content"} :
                \/ kind = "done" /\ IsDone(sent[k])
                \/ kind = "error" /\ IsError(sent[k])
                \/ kind = "content" /\ IsContent(sent[k])}) = 1
    /\ \E contents \in {IF gen.pc = "closed"
                        THEN SubSeq(sent, 1, Len(sent) - 1) ELSE sent} :
          /\ Len(contents) = Cardinality(PassedOn)
          /\ \A n \in 1..Len(contents) :
                contents[n] =
                   ContentEvent(DeltaOf(upstream.steps[NthOf(PassedOn, n)])[1])
                /\ IsContent(contents[n])
    /\ gen.pc # "closed" => ENABLED NextChat
    /\ gen.pc = "closed" =>
          /\ ~ENABLED NextChat
          /\ sent # <<>>
          /\ IF upstream.create = "ok" /\ RaisingSteps = {}
             THEN IsDone(sent[Len(sent)])
             ELSE /\ IsError(sent[Len(sent)])
                  /\ sent[Len(sent)][9] =
                        IF upstream.create = "raises"
                        THEN "service unavailable"
                        ELSE MessageOf(upstream.steps[NthOf(RaisingSteps, 1)])

\* C18: the content "Hi" and the content "[DONE]" were sent, then the
\* iteration raised, and the stream ended with the error event
C18_Witness ==
    /\ gen.pc = "closed"
    /\ Len(sent) = 3
    /\ sent[1] = ContentEvent("Hi")
    /\ sent[2] = ContentEvent("[DONE]")
    /\ ~IsDone(sent[2])
    /\ sent[3] = ErrorEvent("connection lost")

\* The filenames of Filenames that do not end in .txt, in whatever case it
\* is written, the missing one and the empty one among them
OtherNames ==
    {<<>>,
     <<(<<>>)>>,
     <<(<<"c", "h", "a", "t", ".", "t", "x", "t", ".", "g", "z">>)>>,
     <<(<<"c", "h", "a", "t", ".", "p", "d", "f">>)>>,
     <<(<<"t", "x", "t">>)>>}

\* C19: parse_chat_file answers an upload whose filename is missing, empty
\* or does not end in .txt (the case of the letters set aside: CHAT.TXT
\* ends in it) with the error 400 and without having read or parsed it; it
\* answers every other upload after parse_chat has returned the result of
\* the decoded bytes, with the error 422 exactly when that result has no
\* message and with that result as it is otherwise.  Nothing is answered
\* before.
C19_UploadOutcome ==
    /\ (pc = "answered") = (response # <<>>)
    /\ request.filename \in OtherNames =>
          /\ pc \in {"request", "answered"}
          /\ content = <<>> /\ lines = <<>> /\ dominant = "?" /\ result = <<>>
    /\ pc = "answered" =>
          IF request.filename \in OtherNames
          THEN response[1] = [status |-> 400, body |-> <<>>]
          ELSE /\ result = <<ParseChat(Decode(request.raw))>>
               /\ response[1].status \in {200, 422}
               /\ (response[1].status = 422) = (result[1].messages = <<>>)
               /\ response[1].status = 200 => response[1].body = result

\* C19: the upload CHAT.TXT, whose bytes are not UTF-8 and in latin-1 start
\* with three characters before the bracket, was parsed to no message and
\* answered with 422
C19_Witness ==
    /\ pc = "answered"
    /\ request.filename = <<(<<"C", "H", "A", "T", ".", "T", "X", "T">>)>>
    /\ request.raw = <<"xEF", "xBB", "xBF">> \o LineA_Bo \o <<"xE9">>
    /\ lines = <<(<<"U+00EF", "U+00BB", "U+00BF">> \o LineA_Bo
                  \o <<"U+00E9">>)>>
    /\ result[1].messages = <<>>
    /\ response[1].status = 422

====
